---- MODULE Spec2Model ----
(***************************************************************************)
(* Model of the Swift MT940/950 generator (src/MT940_50.py): gen_mt9, the  *)
(* sequential fold over the rows of a csv file that writes the statement   *)
(* messages, and convert_values, the per-record field normalizer.          *)
(*                                                                         *)
(* A Python string is a sequence of one-character strings, a csv row is a  *)
(* sequence of such strings, and field k of the source (0-based) is        *)
(* element k+1 of the row.  The target file is the sequence of the items   *)
(* written to it, in order: one item per tag line, header or trailer.      *)
(***************************************************************************)
EXTENDS Integers, Sequences, FiniteSets, TLC

(***************************************************************************)
(* Bounds of the model.                                                    *)
(***************************************************************************)
\* The number of rows read from the csv file in one run.
MaxRows == 3

\* The number of times convert_values is applied to a record in turn.
MaxCalls == 2

(***************************************************************************)
(* Python string operations used by the source.                            *)
(***************************************************************************)
Lower == <<"a", "b", "c", "d", "e", "f", "g", "h", "i", "j", "k", "l", "m",
           "n", "o", "p", "q", "r", "s", "t", "u", "v", "w", "x", "y", "z">>

Upper == <<"A", "B", "C", "D", "E", "F", "G", "H", "I", "J", "K", "L", "M",
           "N", "O", "P", "Q", "R", "S", "T", "U", "V", "W", "X", "Y", "Z">>

\* One character of str.upper().
UpperChar(c) ==
  IF \E k \in 1..26 : Lower[k] = c
  THEN Upper[CHOOSE k \in 1..26 : Lower[k] = c]
  ELSE c

\* str.upper()
StrUpper(s) == [k \in 1..Len(s) |-> UpperChar(s[k])]

\* str.replace(a, b) for a one-character a and a string b.
RECURSIVE Replace(_, _, _)
Replace(s, a, b) ==
  IF s = <<>> THEN <<>>
  ELSE (IF Head(s) = a THEN b ELSE <<Head(s)>>) \o Replace(Tail(s), a, b)

Min(a, b) == IF a < b THEN a ELSE b

\* The slice s[i:j] for 0 <= i <= j: out-of-range positions are clamped.
Slice(s, i, j) == SubSeq(s, Min(i, Len(s)) + 1, Min(j, Len(s)))

\* str.isspace(): non-empty and nothing but white space.
IsSpace(s) == s # <<>> /\ \A k \in 1..Len(s) : s[k] = " "

\* A string of n copies of the character c.
Fill(n, c) == [k \in 1..n |-> c]

\* str.ljust(n, c) and str.rjust(n, c)
Ljust(s, n, c) == IF Len(s) >= n THEN s ELSE s \o Fill(n - Len(s), c)

Rjust(s, n, c) == IF Len(s) >= n THEN s ELSE Fill(n - Len(s), c) \o s

Digits == <<"0", "1", "2", "3", "4", "5", "6", "7", "8", "9">>

\* str(n) for a natural number n.
RECURSIVE Str(_)
Str(n) == IF n < 10 THEN <<Digits[n + 1]>> ELSE Str(n \div 10) \o <<Digits[(n % 10) + 1]>>

\* line[k] of the source, for a 0-based k.
Fld(line, k) == line[k + 1]

(***************************************************************************)
(* convert_values: the field normalizer.                                   *)
(***************************************************************************)
CaseFields == {5, 6, 11, 17, 18, 21}

\* Mutant of AmountFields: one index is mistyped.
AmountFieldsTypo == {8, 13, 20, 23}

AmountFields == {8, 12, 20, 23}

DateFields == {7, 9, 10, 19, 22}

\* The amount rewriting of line 271.
ConvertAmount(item) == Replace(Replace(Replace(item, ",", <<>>), ".", <<",">>), "-", <<>>)

\* Mutant of ConvertDate: the month-first layout is sliced like the
\* day-first one.
ConvertDateDayFirst(item, i, dtf) ==
  IF dtf = "DDMMYYYY" \/ dtf = "MMDDYYYY"
  THEN IF i # 10 THEN Slice(item, 8, 10) \o Slice(item, 3, 5) \o Slice(item, 0, 2)
                 ELSE Slice(item, 3, 5) \o Slice(item, 0, 2)
  ELSE IF i # 10 THEN Slice(item, 2, 4) \o Slice(item, 5, 7) \o Slice(item, 8, 10)
                 ELSE Slice(item, 5, 7) \o Slice(item, 8, 10)

\* The date rewriting of lines 274-279, for field i under the layout dtf.
ConvertDate(item, i, dtf) ==
  IF dtf = "DDMMYYYY"
  THEN IF i # 10 THEN Slice(item, 8, 10) \o Slice(item, 3, 5) \o Slice(item, 0, 2)
                 ELSE Slice(item, 3, 5) \o Slice(item, 0, 2)
  ELSE IF dtf = "MMDDYYYY"
  THEN IF i # 10 THEN Slice(item, 8, 10) \o Slice(item, 0, 2) \o Slice(item, 3, 5)
                 ELSE Slice(item, 0, 2) \o Slice(item, 3, 5)
  ELSE IF i # 10 THEN Slice(item, 2, 4) \o Slice(item, 5, 7) \o Slice(item, 8, 10)
                 ELSE Slice(item, 5, 7) \o Slice(item, 8, 10)

\* Mutant of convert_values: the fields are counted from 1.
convert_valuesFromOne(xline, dtf) ==
  [k \in 1..Len(xline) |->
     IF k \in CaseFields THEN StrUpper(xline[k])
     ELSE IF k \in AmountFields THEN ConvertAmount(xline[k])
     ELSE IF k \in DateFields THEN ConvertDate(xline[k], k, dtf)
     ELSE xline[k]]

convert_values(xline, dtf) ==
  [k \in 1..Len(xline) |->
     IF (k - 1) \in CaseFields THEN StrUpper(xline[k])
     ELSE IF (k - 1) \in AmountFields THEN ConvertAmount(xline[k])
     ELSE IF (k - 1) \in DateFields THEN ConvertDate(xline[k], k - 1, dtf)
     ELSE xline[k]]

(***************************************************************************)
(* Python values that are either a bool or a string (mir, f113, chk).      *)
(***************************************************************************)
PyFalse == [py |-> "False", val |-> <<>>]

PyTrue == [py |-> "True", val |-> <<>>]

PyStr(s) == [py |-> "str", val |-> s]

\* The truth value of v in "if v:".
Truthy(v) == v.py = "True" \/ (v.py = "str" /\ v.val # <<>>)

\* "%s" % v, and str(v).
Format(v) ==
  IF v.py = "False" THEN <<"F", "a", "l", "s", "e">>
  ELSE IF v.py = "True" THEN <<"T", "r", "u", "e">>
  ELSE v.val

(***************************************************************************)
(* The arguments of gen_mt9.                                               *)
(***************************************************************************)
\* The defaults of the signature (lines 19-43).
DefaultArgs ==
  [msg_type |-> <<"9", "4", "0">>, dtf |-> "DDMMYYYY",
   appid |-> <<"F">>, servid |-> <<"2", "1">>,
   session_no |-> <<"0", "0", "0", "0">>, seqno |-> <<"0", "0", "0", "0", "0", "0">>,
   drctn |-> "I", msg_prty |-> <<"N">>, dlvt_mnty |-> <<>>, obs |-> <<>>,
   inp_time |-> <<"0", "0", "0", "0">>, out_date |-> <<"0", "0", "0", "0", "0", "0">>,
   out_time |-> <<"0", "0", "0", "0">>, mir |-> PyTrue,
   f113 |-> PyFalse, mur |-> <<"M", "T", "9", "4", "0", "9", "5", "0", "G", "E", "N">>,
   chk |-> PyFalse]

\* An MT950 sent in the output direction with a given MIR, a banking
\* priority code and a checksum.
OutputArgs ==
  [DefaultArgs EXCEPT !.msg_type = <<"9", "5", "0">>, !.dtf = "YYYYMMDD", !.drctn = "O",
                      !.mir = PyStr(<<"M", "I", "R">>), !.f113 = PyStr(<<"7">>),
                      !.chk = PyStr(<<"K">>), !.mur = <<"U">>]

\* The output direction with the MIR left to be generated.
OutputAutoArgs ==
  [DefaultArgs EXCEPT !.dtf = "MMDDYYYY", !.drctn = "O", !.mir = PyTrue, !.mur = <<"U">>]

Args == {DefaultArgs, OutputArgs, OutputAutoArgs}

(***************************************************************************)
(* The rows the csv reader may yield.                                      *)
(***************************************************************************)
Date1 == <<"1", "5", "-", "1", "0", "-", "2", "0", "1", "9">>

Date2 == <<"1", "6", "-", "1", "1", "-", "2", "0", "2", "0">>

\* A row of 27 fields in the column layout of the csv file.
DataRow(sendbic, recvbic, account, stmtpg, supp, cbalsgn, cbaltyp, cbal, abalsgn, ref4, trnfld) ==
  <<sendbic, recvbic, account, <<"7">>, stmtpg,
    <<"c">>, <<"f">>, Date1, <<"1", ",", "0", "0", "0", ".", "5">>,
    Date1, Date2, <<"d">>, <<"-", "2", ".", "5">>, <<"N", "T", "R", "F">>, <<"R", "1">>, <<"B", "1">>,
    supp, cbalsgn, cbaltyp, Date2, cbal, abalsgn, Date2, <<"9", ".", "7">>,
    <<"E", "U", "R">>, ref4, trnfld>>

BicAB == <<"B", "A", "N", "K", "A", "B">>

BicCD == <<"B", "A", "N", "K", "C", "D">>

BicEF == <<"B", "A", "N", "K", "E", "F">>

RowA == DataRow(BicAB, BicCD, <<"1">>, <<"1">>, <<"S">>, <<"c">>, <<"f">>, <<"1", ".", "5">>,
                <<"c">>, <<"X">>, <<>>)

\* Same message and page as RowA, other balances, no available balance.
RowA2 == DataRow(BicAB, BicCD, <<"1">>, <<"1">>, <<>>, <<"d">>, <<"m">>, <<"2", ".", "5">>,
                 <<>>, <<>>, <<"T">>)

\* The next page of the same account; blank fields hold one space.
RowP == DataRow(BicAB, BicCD, <<"1">>, <<"2">>, <<" ">>, <<"c">>, <<"m">>, <<"3", ".", "5">>,
                <<" ">>, <<" ">>, <<" ">>)

\* Another receiver.
RowR == DataRow(BicAB, BicEF, <<"1">>, <<"1">>, <<>>, <<"d">>, <<"f">>, <<"4", ".", "5">>,
                <<"d">>, <<"Y">>, <<>>)

\* The BIC pair of RowA in lower case.
RowL == DataRow(<<"b", "a", "n", "k", "a", "b">>, <<"b", "a", "n", "k", "c", "d">>,
                <<"1">>, <<"1">>, <<>>, <<"c">>, <<"f">>, <<"5", ".", "5">>, <<>>, <<>>, <<>>)

\* Another receiver and another page, with every optional detail filled.
RowQ == DataRow(BicAB, BicEF, <<"1">>, <<"2">>, <<"S">>, <<"c">>, <<"f">>, <<"9", ".", "5">>,
                <<"c">>, <<"W">>, <<>>)

\* Another account.
RowK == DataRow(BicAB, BicCD, <<"2">>, <<"1">>, <<>>, <<"c">>, <<"f">>, <<"6", ".", "5">>,
                <<>>, <<"Z">>, <<>>)

\* No account id.
RowE == DataRow(BicAB, BicCD, <<>>, <<"1">>, <<>>, <<"c">>, <<"f">>, <<"7", ".", "5">>,
                <<>>, <<>>, <<>>)

\* Neither account id nor page number.
RowE0 == DataRow(BicAB, BicCD, <<>>, <<>>, <<>>, <<"d">>, <<"f">>, <<"8", ".", "5">>,
                 <<>>, <<>>, <<"T">>)

RefFourLabel == <<"R", "e", "f", " ", "4", " ", "(", "M", "T", "9", "4", "0", " ", "O", "n", "l", "y", ")">>

\* The column header row of the csv file.
HeaderRow == [k \in 1..27 |-> IF k = 26 THEN RefFourLabel ELSE <<"H">>]

\* A row of 27 empty fields.
BlankRow == [k \in 1..27 |-> <<>>]

\* RowA without its last field.
ShortRow == SubSeq(RowA, 1, 26)

\* 26 fields, the first one empty.
ShortBlankRow == [k \in 1..26 |-> IF k = 1 THEN <<>> ELSE <<"x">>]

\* RowA followed by one more field.
LongRow == Append(RowA, <<"x">>)

\* What the csv reader yields for an empty line.
EmptyRow == <<>>

\* A row of one field.
OneFieldRow == <<<<"x">>>>

DataRows == {RowA, RowA2, RowP, RowR, RowQ, RowL, RowK, RowE, RowE0}

Rows == DataRows \cup {HeaderRow, BlankRow, ShortRow, ShortBlankRow, LongRow, EmptyRow, OneFieldRow}

(***************************************************************************)
(* The state of a run of gen_mt9.                                          *)
(***************************************************************************)
VARIABLES
  args,       \* the arguments of the call
  rows,       \* the rows csv_file has yielded so far, in order
  prev_line,  \* the details of the last data row
  trn,        \* the counter of the generated TRNs
  lst_line,   \* the last data row, normalized; None before the first
  zfile,      \* the items written to the target file, in order
  pc,         \* "loop", "done", or the exception that ended the run
  xlines      \* a record followed by its successive normalizations

vars == <<args, rows, prev_line, trn, lst_line, zfile, pc, xlines>>

None == <<>>

\* prev_line as set up by lines 101-115.
EmptyContext ==
  [account |-> <<>>, sendbic |-> <<>>, recvbic |-> <<>>, stmtno |-> <<>>, stmtpg |-> <<>>,
   ccy |-> <<>>, cbalsgn |-> <<>>, cbaltyp |-> <<>>, cbaldte |-> <<>>, cbal |-> <<>>,
   abalsgn |-> <<>>, abaldte |-> <<>>, abal |-> <<>>]

\* An item of the target file: tag names it, opt is the letter that follows
\* the number of a balance tag, text is what follows the tag.
Item(tag, opt, text) == [tag |-> tag, opt |-> opt, text |-> text]

(***************************************************************************)
(* The tests of the loop body.                                             *)
(***************************************************************************)
RefFourSentinel == <<"R", "E", "F", "4", "(", "M", "T", "9", "4", "0", "O", "N", "L", "Y", ")">>

\* Evaluating the condition of line 124 raises IndexError: line[0] of an
\* empty row, line[-2] of a row of one field.
HeaderTestRaises(line) == Len(line) < 2

\* The condition of line 124, for a row on which it can be evaluated.
IsSkipped(line) ==
  \/ Replace(StrUpper(line[Len(line) - 1]), " ", <<>>) = RefFourSentinel
  \/ Fld(line, 0) = <<>>

\* Mutant of ColumnCountOK: only rows that are too short are refused.
ColumnCountAtLeast(line) == Len(line) >= 27

\* Line 127: the row has the column count of a data row.
ColumnCountOK(line) == Len(line) = 27

\* Line 133: a previous page is to be closed.
ClosesPage(prev, line) ==
  (prev.stmtpg # Fld(line, 4) \/ prev.account # Fld(line, 2)) /\ prev.account # <<>>

\* Line 149: the row starts a new message.
NewMessage(prev, line) ==
  prev.sendbic # StrUpper(Fld(line, 0)) \/ prev.recvbic # StrUpper(Fld(line, 1))

\* Line 150: a message is open.
MessageOpen(prev) == prev.sendbic # <<>>

\* Line 190: the row starts a new page.
OpensPage(prev, line) == prev.stmtpg # Fld(line, 4) \/ prev.account # Fld(line, 2)

\* Lines 192, 216 and 218: the field is neither empty nor white space.
Filled(s) == s # <<>> /\ ~IsSpace(s)

\* Line 141: the available balance of the context is written.
HasAvailable(prev) == prev.abalsgn # <<>>

\* Line 244: the available balance of the last row is written.
LastHasAvailable(lst) == Fld(lst, 21) # <<>>

\* Line 174 evaluates datetime.datetime.today() with datetime bound to the
\* class datetime.datetime (line 16), which has no attribute datetime.
MirRaises(a) == a.drctn # "I" /\ a.mir.py = "True"

(***************************************************************************)
(* The text written for a row.                                             *)
(***************************************************************************)
\* Lines 135-146.
PageClose(prev) ==
  <<Item("62", prev.cbaltyp, prev.cbalsgn \o prev.cbaldte \o prev.ccy \o prev.cbal)>>
  \o (IF HasAvailable(prev)
      THEN <<Item("64", <<>>, prev.abalsgn \o prev.abaldte \o prev.ccy \o prev.abal)>>
      ELSE <<>>)

\* Lines 152-155 and 250-253: block 5.
Trailer(a) ==
  Item("trl", <<>>, IF Truthy(a.chk) THEN <<"{", "C", "H", "K", ":">> \o Format(a.chk) \o <<"}">>
                    ELSE <<>>)

\* Lines 158-162: block 1.
BasicHeader(line, a) ==
  <<"{", "1", ":">> \o a.appid \o a.servid \o Ljust(Fld(line, 0), 12, "X")
  \o a.session_no \o a.seqno \o <<"}">>

\* Lines 165-184: block 2, for a run in which line 174 is not reached.
ApplicationHeader(line, a) ==
  IF a.drctn = "I"
  THEN <<"{", "2", ":", "I">> \o a.msg_type \o Ljust(Fld(line, 1), 12, "X")
       \o a.msg_prty \o a.dlvt_mnty \o a.obs \o <<"}">>
  ELSE <<"{", "2", ":", "O">> \o a.msg_type \o a.inp_time \o Format(a.mir)
       \o a.out_date \o a.out_time \o a.msg_prty \o <<"}">>

\* Line 186: the banking priority field, which line 187 does not use.
f113_(a) ==
  IF a.f113.py = "False" THEN <<>>
  ELSE <<"{", "1", "1", "3", ":">> \o Rjust(Format(a.f113), 4, "0") \o <<"}">>

\* Line 187: block 3 and the start of block 4.
UserHeader(a) ==
  <<"{", "3", ":">> \o Format(a.f113) \o <<"{", "1", "1", "8", ":">> \o a.mur
  \o <<"}", "{", "4", ":">>

\* Lines 158-187.
MessageHeader(line, a) ==
  Item("hdr", <<>>, BasicHeader(line, a) \o ApplicationHeader(line, a) \o UserHeader(a))

GenPrefix == <<"M", "T", "9", "4", "0", "5", "0", "G", "E", "N">>

\* Lines 192-193: the TRN is generated.
GeneratesTrn(line) == Fld(line, 26) = <<>> \/ IsSpace(Fld(line, 26))

\* Lines 192-206.
PageOpen(line, n) ==
  <<Item("20", <<>>, IF GeneratesTrn(line) THEN GenPrefix \o Rjust(Str(n), 6, "0")
                     ELSE Fld(line, 26)),
    Item("25", <<>>, Fld(line, 2)),
    Item("28C", <<>>, Rjust(Fld(line, 3), 5, "0") \o <<"/">> \o Rjust(Fld(line, 4), 5, "0")),
    Item("60", Fld(line, 6), Fld(line, 5) \o Fld(line, 7) \o Fld(line, 24) \o Fld(line, 8))>>

\* Mutant of ItemLines: the :86: tag is written for either message type.
ItemLinesAnyType(line, a) ==
  <<Item("61", <<>>, Fld(line, 9) \o Fld(line, 10) \o Fld(line, 11) \o Fld(line, 12)
                     \o Fld(line, 13) \o Fld(line, 14) \o <<"/", "/">> \o Fld(line, 15))>>
  \o (IF Filled(Fld(line, 16)) THEN <<Item("sup", <<>>, Fld(line, 16))>> ELSE <<>>)
  \o (IF Filled(Fld(line, 25)) THEN <<Item("86", <<>>, Fld(line, 25))>> ELSE <<>>)

\* Lines 208-220.
ItemLines(line, a) ==
  <<Item("61", <<>>, Fld(line, 9) \o Fld(line, 10) \o Fld(line, 11) \o Fld(line, 12)
                     \o Fld(line, 13) \o Fld(line, 14) \o <<"/", "/">> \o Fld(line, 15))>>
  \o (IF Filled(Fld(line, 16)) THEN <<Item("sup", <<>>, Fld(line, 16))>> ELSE <<>>)
  \o (IF a.msg_type = <<"9", "4", "0">> /\ Filled(Fld(line, 25))
      THEN <<Item("86", <<>>, Fld(line, 25))>> ELSE <<>>)

\* Mutant of NextTrn: the counter is never advanced.
NextTrnStuck(prev, line, n) == n

\* Lines 192-194: the counter after the row.
NextTrn(prev, line, n) == IF OpensPage(prev, line) /\ GeneratesTrn(line) THEN n + 1 ELSE n

\* Mutant of Zline: the header of the new message is written before the
\* trailer of the previous one.
ZlineHeaderFirst(prev, line, n, a) ==
  (IF ClosesPage(prev, line) THEN PageClose(prev) ELSE <<>>)
  \o (IF NewMessage(prev, line)
      THEN <<MessageHeader(line, a)>> \o (IF MessageOpen(prev) THEN <<Trailer(a)>> ELSE <<>>)
      ELSE <<>>)
  \o (IF OpensPage(prev, line) THEN PageOpen(line, n) ELSE <<>>)
  \o ItemLines(line, a)

\* zline at line 222, for the normalized row line.
Zline(prev, line, n, a) ==
  (IF ClosesPage(prev, line) THEN PageClose(prev) ELSE <<>>)
  \o (IF NewMessage(prev, line)
      THEN (IF MessageOpen(prev) THEN <<Trailer(a)>> ELSE <<>>) \o <<MessageHeader(line, a)>>
      ELSE <<>>)
  \o (IF OpensPage(prev, line) THEN PageOpen(line, n) ELSE <<>>)
  \o ItemLines(line, a)

\* Mutant of Context: the closing and the available amount change places.
ContextSwapped(line) ==
  [account |-> Fld(line, 2), sendbic |-> Fld(line, 0), recvbic |-> Fld(line, 1),
   stmtno |-> Fld(line, 3), stmtpg |-> Fld(line, 4), ccy |-> Fld(line, 24),
   cbalsgn |-> Fld(line, 17), cbaltyp |-> Fld(line, 18), cbaldte |-> Fld(line, 19),
   cbal |-> Fld(line, 23), abalsgn |-> Fld(line, 21), abaldte |-> Fld(line, 22),
   abal |-> Fld(line, 20)]

\* Lines 224-236.
Context(line) ==
  [account |-> Fld(line, 2), sendbic |-> Fld(line, 0), recvbic |-> Fld(line, 1),
   stmtno |-> Fld(line, 3), stmtpg |-> Fld(line, 4), ccy |-> Fld(line, 24),
   cbalsgn |-> Fld(line, 17), cbaltyp |-> Fld(line, 18), cbaldte |-> Fld(line, 19),
   cbal |-> Fld(line, 20), abalsgn |-> Fld(line, 21), abaldte |-> Fld(line, 22),
   abal |-> Fld(line, 23)]

\* Mutant of FinalClose: the last message is left without its trailer.
FinalCloseNoTrailer(lst, a) ==
  <<Item("62", <<"F">>, Fld(lst, 17) \o Fld(lst, 19) \o Fld(lst, 24) \o Fld(lst, 20))>>
  \o (IF LastHasAvailable(lst)
      THEN <<Item("64", <<>>, Fld(lst, 21) \o Fld(lst, 22) \o Fld(lst, 24) \o Fld(lst, 23))>>
      ELSE <<>>)

\* Mutant of FinalClose: the closing balance takes its type from the last
\* row, as a page close takes it from the context.
FinalCloseTyped(lst, a) ==
  <<Item("62", Fld(lst, 18), Fld(lst, 17) \o Fld(lst, 19) \o Fld(lst, 24) \o Fld(lst, 20))>>
  \o (IF LastHasAvailable(lst)
      THEN <<Item("64", <<>>, Fld(lst, 21) \o Fld(lst, 22) \o Fld(lst, 24) \o Fld(lst, 23))>>
      ELSE <<>>)
  \o <<Trailer(a)>>

\* Lines 239-253: zline at line 255.
FinalClose(lst, a) ==
  <<Item("62", <<"F">>, Fld(lst, 17) \o Fld(lst, 19) \o Fld(lst, 24) \o Fld(lst, 20))>>
  \o (IF LastHasAvailable(lst)
      THEN <<Item("64", <<>>, Fld(lst, 21) \o Fld(lst, 22) \o Fld(lst, 24) \o Fld(lst, 23))>>
      ELSE <<>>)
  \o <<Trailer(a)>>

(***************************************************************************)
(* The run: one step per iteration of the loop of line 121, and the close  *)
(* after it.                                                               *)
(***************************************************************************)
Init ==
  /\ args \in Args
  /\ rows = <<>>
  /\ prev_line = EmptyContext
  /\ trn = 0
  /\ lst_line = None
  /\ zfile = <<>>
  /\ pc = "loop"
  /\ xlines = <<>>

\* The reader yields the row line.
Reads(line) ==
  /\ pc = "loop"
  /\ Len(rows) < MaxRows
  /\ rows' = Append(rows, line)

\* Line 124 raises IndexError.
HeaderTestFails ==
  \E line \in Rows :
    /\ Reads(line)
    /\ HeaderTestRaises(line)
    /\ pc' = "IndexError"
    /\ UNCHANGED <<args, prev_line, trn, lst_line, zfile, xlines>>

\* Lines 124-125: the row is a header or has no first field.
SkipRow ==
  \E line \in Rows :
    /\ Reads(line)
    /\ ~HeaderTestRaises(line)
    /\ IsSkipped(line)
    /\ UNCHANGED <<args, prev_line, trn, lst_line, zfile, pc, xlines>>

\* Lines 127-128: the column count is wrong.
BadColumnCount ==
  \E line \in Rows :
    /\ Reads(line)
    /\ ~HeaderTestRaises(line)
    /\ ~IsSkipped(line)
    /\ ~ColumnCountOK(line)
    /\ pc' = "Exception"
    /\ UNCHANGED <<args, prev_line, trn, lst_line, zfile, xlines>>

\* Lines 130-174: the row opens a message and the MIR cannot be generated.
MirFails ==
  \E raw \in Rows :
    /\ Reads(raw)
    /\ ~HeaderTestRaises(raw)
    /\ ~IsSkipped(raw)
    /\ ColumnCountOK(raw)
    /\ NewMessage(prev_line, convert_values(raw, args.dtf))
    /\ MirRaises(args)
    /\ pc' = "AttributeError"
    /\ UNCHANGED <<args, prev_line, trn, lst_line, zfile, xlines>>

\* Lines 130-237: a data row.
ProcessRow ==
  \E raw \in Rows :
    LET line == convert_values(raw, args.dtf) IN
    /\ Reads(raw)
    /\ ~HeaderTestRaises(raw)
    /\ ~IsSkipped(raw)
    /\ ColumnCountOK(raw)
    /\ ~(NewMessage(prev_line, line) /\ MirRaises(args))
    /\ zfile' = zfile \o Zline(prev_line, line, trn, args)
    /\ trn' = NextTrn(prev_line, line, trn)
    /\ prev_line' = Context(line)
    /\ lst_line' = line
    /\ UNCHANGED <<args, pc, xlines>>

\* Lines 239-257: the reader is exhausted after a data row.
CloseLast ==
  /\ pc = "loop"
  /\ lst_line # None
  /\ zfile' = zfile \o FinalClose(lst_line, args)
  /\ pc' = "done"
  /\ UNCHANGED <<args, rows, prev_line, trn, lst_line, xlines>>

\* Line 239 with lst_line None: the subscript raises TypeError.
CloseFails ==
  /\ pc = "loop"
  /\ lst_line = None
  /\ pc' = "TypeError"
  /\ UNCHANGED <<args, rows, prev_line, trn, lst_line, zfile, xlines>>

Next ==
  \/ HeaderTestFails
  \/ SkipRow
  \/ BadColumnCount
  \/ MirFails
  \/ ProcessRow
  \/ CloseLast
  \/ CloseFails

Spec == Init /\ [][Next]_vars

(***************************************************************************)
(* convert_values on its own: a record is normalized, and the result is    *)
(* normalized again.                                                       *)
(***************************************************************************)
CaseValues == {<<>>, <<"c">>, <<"D">>, <<"f", "M">>}

AmountValues == {<<>>, <<"7">>, <<"-", "2", ".", "5">>, <<"1", ",", "2", "3", "4", ".", "5", "6">>}

\* 15 October 2019 and 3 February 2021 in the three layouts, and no date.
DateValues ==
  {<<>>,
   <<"1", "5", "-", "1", "0", "-", "2", "0", "1", "9">>,
   <<"1", "0", "-", "1", "5", "-", "2", "0", "1", "9">>,
   <<"2", "0", "1", "9", "-", "1", "0", "-", "1", "5">>,
   <<"0", "3", "/", "0", "2", "/", "2", "0", "2", "1">>,
   <<"0", "2", "/", "0", "3", "/", "2", "0", "2", "1">>,
   <<"2", "0", "2", "1", "/", "0", "2", "/", "0", "3">>}

OtherValues == {<<"a", ".", "b">>, <<"X", "-", "1", ",">>}

\* A record of 27 fields holding c in the fields of the case set, m in
\* those of the amount set, d in those of the date set and o elsewhere.
Record(c, m, d, o) ==
  [k \in 1..27 |->
     IF (k - 1) \in {5, 6, 11, 17, 18, 21} THEN c
     ELSE IF (k - 1) \in {8, 12, 20, 23} THEN m
     ELSE IF (k - 1) \in {7, 9, 10, 19, 22} THEN d
     ELSE o]

InputRecords ==
  {Record(c, m, d, o) : c \in CaseValues, m \in AmountValues, d \in DateValues, o \in OtherValues}

InitConvert ==
  /\ args \in Args
  /\ xlines \in {<<r>> : r \in InputRecords \cup DataRows}
  /\ pc = "convert"
  /\ rows = <<>>
  /\ prev_line = EmptyContext
  /\ trn = 0
  /\ lst_line = None
  /\ zfile = <<>>

\* convert_values is applied to the last result.
Normalize ==
  /\ pc = "convert"
  /\ Len(xlines) <= MaxCalls
  /\ xlines' = Append(xlines, convert_values(xlines[Len(xlines)], args.dtf))
  /\ UNCHANGED <<args, rows, prev_line, trn, lst_line, zfile, pc>>

NextConvert == Normalize

SpecConvert == InitConvert /\ [][NextConvert]_vars

(***************************************************************************)
(* The rows read so far, as the run saw them.                              *)
(***************************************************************************)
\* The row was processed as a data row.
IsData(line) == ~HeaderTestRaises(line) /\ ~IsSkipped(line) /\ Len(line) = 27

\* The run ended with an exception raised while handling the last row read.
AbortedAtRow == pc \in {"IndexError", "Exception", "AttributeError"}

\* The data rows the loop body has handled to its end, as read.
DataRead ==
  SelectSeq(IF AbortedAtRow THEN SubSeq(rows, 1, Len(rows) - 1) ELSE rows, IsData)

\* The same rows as the loop body saw them after line 130.
Records == [k \in 1..Len(DataRead) |-> convert_values(DataRead[k], args.dtf)]

\* The positions of the items with the given tag in the target file.
Places(tag) == {i \in 1..Len(zfile) : zfile[i].tag = tag}

\* The position of the :61: tag of the k-th data row; 0 for k = 0.
Pos61(k) ==
  IF k = 0 THEN 0
  ELSE CHOOSE i \in Places("61") : Cardinality({j \in Places("61") : j <= i}) = k

\* The position of the last item of the k-th data row's own lines (its :61:
\* tag, supplementary line and :86: tag); 0 for k = 0.
End(k) ==
  IF k = 0 THEN 0
  ELSE CHOOSE e \in Pos61(k)..Len(zfile) :
         /\ \A i \in Pos61(k) + 1..e : zfile[i].tag \in {"sup", "86"}
         /\ (e < Len(zfile) => zfile[e + 1].tag \notin {"sup", "86"})

\* The positions of the items written while handling the k-th data row.
Written(k) == End(k - 1) + 1 .. End(k)

\* Every data row handled wrote exactly one :61: tag.
ItemPerRecord == Cardinality(Places("61")) = Len(Records)

TypeOK ==
  /\ args \in Args
  /\ Len(rows) <= MaxRows
  /\ trn \in 0..MaxRows
  /\ pc \in {"loop", "done", "convert", "IndexError", "Exception", "AttributeError", "TypeError"}

(***************************************************************************)
(* Message framing.                                                        *)
(***************************************************************************)
\* The headers written less the trailers written among the first n items.
OpenMessages(n) ==
  Cardinality({i \in Places("hdr") : i <= n}) - Cardinality({i \in Places("trl") : i <= n})

\* C1 -- Message framing: once a run has handled all its rows and written
\* the final close, the target file holds as many message headers as
\* message trailers, so every message opened is closed, the last included.
MessageFraming ==
  pc = "done" =>
    /\ Cardinality(Places("hdr")) = Cardinality(Places("trl"))
    /\ Places("hdr") # {}
    /\ zfile[Len(zfile)].tag = "trl"

\* A finished run that opened three messages.
MessageFramingWitness == pc = "done" /\ Cardinality(Places("hdr")) = 3

\* C10 -- A message boundary closes before it opens: a header written for a
\* data row other than the first has the trailer of the previous message
\* right before it, after every item of the previous row, and before any
\* item of the new row; in every prefix of the target file the headers
\* outnumber the trailers by 0 or 1.
MessageClosesBeforeOpens ==
  /\ \A n \in 0..Len(zfile) : OpenMessages(n) \in {0, 1}
  /\ \A k \in 2..Len(Records) :
       \A h \in Written(k) :
         zfile[h].tag = "hdr" =>
           /\ h - 1 \in Written(k)
           /\ zfile[h - 1].tag = "trl"
           /\ \A i \in h + 1..Pos61(k) - 1 : zfile[i].tag \in {"20", "25", "28C", "60"}

\* The second data row opened a message while the first one's was open.
MessageClosesBeforeOpensWitness ==
  /\ Len(Records) >= 2
  /\ \E h \in Written(2) : zfile[h].tag = "hdr"
  /\ \E h \in Written(2) : zfile[h].tag = "62"

(***************************************************************************)
(* Pages.                                                                  *)
(***************************************************************************)
\* The k-th data row differs from the one before it in page number or
\* account id.
PageChanges(k) ==
  \/ Fld(Records[k], 4) # Fld(Records[k - 1], 4)
  \/ Fld(Records[k], 2) # Fld(Records[k - 1], 2)

\* The closing-balance tag built from the closing balance of the row r.
ClosingTagOf(r) ==
  [tag |-> "62", opt |-> Fld(r, 18),
   text |-> Fld(r, 17) \o Fld(r, 19) \o Fld(r, 24) \o Fld(r, 20)]

\* C2 -- A page boundary closes before it opens: for every data row after
\* the first whose page number or account id differs from the previous
\* data row's, a closing-balance tag built from the previous row's closing
\* balance is written before the row's opening-balance tag, and between
\* the :61: tags of the two rows.
PageClosesBeforeOpens ==
  \A k \in 2..Len(Records) :
    PageChanges(k) =>
      \E c \in Written(k), o \in Written(k) :
        /\ c < o
        /\ zfile[c] = ClosingTagOf(Records[k - 1])
        /\ zfile[o].tag = "60"

\* The opening- and closing-balance tags of the target file, in order.
BalanceTags == SelectSeq(zfile, LAMBDA it : it.tag \in {"60", "62"})

\* C3 -- Every opened page is closed exactly once: the opening- and
\* closing-balance tags of the target file alternate, starting with an
\* opening-balance tag, and a finished run ends with a closing-balance tag.
PagesAlternate ==
  /\ \A i \in 1..Len(BalanceTags) :
       BalanceTags[i].tag = (IF i % 2 = 1 THEN "60" ELSE "62")
  /\ pc = "done" => Len(BalanceTags) > 0 /\ Len(BalanceTags) % 2 = 0

(***************************************************************************)
(* Message boundaries.                                                     *)
(***************************************************************************)
\* The k-th data row differs from the one before it in sender or receiver
\* BIC, both compared in upper case.
BicChanges(k) ==
  \/ StrUpper(Fld(DataRead[k], 0)) # StrUpper(Fld(DataRead[k - 1], 0))
  \/ StrUpper(Fld(DataRead[k], 1)) # StrUpper(Fld(DataRead[k - 1], 1))

\* C4 -- Message boundary detection ignores the case of the BIC pair: a
\* header is written at a data row if and only if it is the first data row
\* or its sender or receiver BIC differs, in upper case, from the previous
\* data row's.
HeaderIffBicChanges ==
  \A k \in 1..Len(Records) :
    (\E h \in Written(k) : zfile[h].tag = "hdr") <=> (k = 1 \/ BicChanges(k))

(***************************************************************************)
(* Generated TRNs.                                                         *)
(***************************************************************************)
\* The n-th generated reference, for n < 10.
GeneratedRef(n) ==
  <<"M", "T", "9", "4", "0", "5", "0", "G", "E", "N", "0", "0", "0", "0", "0">>
  \o <<Digits[n + 1]>>

\* The :20: tags of the target file that carry a generated reference.
GeneratedTags ==
  SelectSeq(zfile, LAMBDA it : it.tag = "20" /\ it.text \in {GeneratedRef(n) : n \in 0..9})

\* The TRN field of the row is empty or white space.
BlankTrn(r) == Fld(r, 26) = <<>> \/ \A i \in 1..Len(Fld(r, 26)) : Fld(r, 26)[i] = " "

\* The k-th data row starts a page: its page number or account id differs
\* from the previous data row's, or from the empty ones before the first.
StartsPage(k) ==
  IF k = 1 THEN Fld(Records[1], 4) # <<>> \/ Fld(Records[1], 2) # <<>>
  ELSE PageChanges(k)

\* The generated references in the target file are the first n, in order.
FirstRefs(n) ==
  /\ Len(GeneratedTags) = n
  /\ \A i \in 1..n : GeneratedTags[i].text = GeneratedRef(i - 1)

\* The statement of C5 as made: one generated reference per data row with
\* a blank TRN field.
RefPerBlankRow == FirstRefs(Cardinality({k \in 1..Len(Records) : BlankTrn(Records[k])}))

\* C5 -- TRN generation: when N data rows with a blank TRN field start a
\* page, the generated :20: references written are MT94050GEN000000 to
\* MT94050GEN00000(N-1), one per such row in order, increasing and never
\* reused, and the counter stands at N.
RefPerBlankPage ==
  /\ FirstRefs(Cardinality({k \in 1..Len(Records) : BlankTrn(Records[k]) /\ StartsPage(k)}))
  /\ trn = Len(GeneratedTags)

\* Two or more references were generated, and a row with a blank TRN got none.
RefPerBlankPageWitness ==
  /\ Len(GeneratedTags) >= 2
  /\ \E k \in 1..Len(Records) : BlankTrn(Records[k]) /\ ~StartsPage(k)

(***************************************************************************)
(* Rows that are not data rows.                                            *)
(***************************************************************************)
\* The run was ended by the column count or the header test of a row.
Refused == pc \in {"Exception", "IndexError"}

\* The statement of C6 as made: a row of other than 27 fields, whatever it
\* holds, is the last row read and ended the run.
AnyOddRowAborts ==
  \A i \in 1..Len(rows) : Len(rows[i]) # 27 => i = Len(rows) /\ Refused

\* The row is passed over by line 124: it has at least two fields, and its
\* field before the last is the header label or its first field is empty.
PassedOver(r) ==
  /\ Len(r) >= 2
  /\ \/ r[1] = <<>>
     \/ Replace(StrUpper(r[Len(r) - 1]), " ", <<>>)
          = <<"R", "E", "F", "4", "(", "M", "T", "9", "4", "0", "O", "N", "L", "Y", ")">>

\* C6 -- A malformed row aborts the run: when a row is read that has other
\* than 27 fields and is not passed over as a header or blank row, the run
\* ends with an exception at that row, with the context, the counter, the
\* last row and the target file as they were; nothing is read or written
\* after a run has ended.
MalformedRowAborts ==
  [][/\ pc = "loop"
     /\ rows' # rows =>
          LET r == rows'[Len(rows')] IN
          (Len(r) # 27 /\ ~PassedOver(r)) =>
            /\ pc' \in {"Exception", "IndexError"}
            /\ UNCHANGED <<prev_line, trn, lst_line, zfile>>]_vars

\* A run refused a row of 26 fields after it had written a data row.
MalformedRowAbortsWitness ==
  /\ pc = "Exception"
  /\ Len(rows[Len(rows)]) = 26
  /\ zfile # <<>>

(***************************************************************************)
(* Balances.                                                               *)
(***************************************************************************)
\* The number of the data row whose :61: tag is the last before position c.
RowBefore(c) == Cardinality({j \in Places("61") : j < c})

\* C7 -- Balance pairing: each closing-balance tag is followed at once by
\* an available-balance tag if and only if the available-balance sign of
\* the data row that closed the page is neither empty nor white space, and
\* no available-balance tag is written elsewhere.
AvailableIffSignFilled ==
  /\ \A c \in Places("62") :
       (c < Len(zfile) /\ zfile[c + 1].tag = "64")
         <=> (Fld(Records[RowBefore(c)], 21) # <<>>
              /\ \E i \in 1..Len(Fld(Records[RowBefore(c)], 21)) :
                   Fld(Records[RowBefore(c)], 21)[i] # " ")
  /\ \A v \in Places("64") : v > 1 /\ zfile[v - 1].tag = "62"

\* The items a finished run must end with, given the letter of the final
\* closing-balance tag.
LastItems(letter) ==
  LET lst == Records[Len(Records)] IN
  <<[tag |-> "62", opt |-> letter,
     text |-> Fld(lst, 17) \o Fld(lst, 19) \o Fld(lst, 24) \o Fld(lst, 20)]>>
  \o (IF Fld(lst, 21) # <<>>
      THEN <<[tag |-> "64", opt |-> <<>>,
              text |-> Fld(lst, 21) \o Fld(lst, 22) \o Fld(lst, 24) \o Fld(lst, 23)]>>
      ELSE <<>>)
  \o <<[tag |-> "trl", opt |-> <<>>,
        text |-> IF args.chk.py = "str" /\ args.chk.val # <<>>
                 THEN <<"{", "C", "H", "K", ":">> \o args.chk.val \o <<"}">>
                 ELSE <<>>]>>

\* The target file of a finished run ends with the given items, which
\* follow the last data row's own lines.
EndsWith(items) ==
  LET n == Len(zfile)  m == Len(items) IN
  /\ n > m
  /\ SubSeq(zfile, n - m + 1, n) = items
  /\ n - m = End(Len(Records))

\* The statement of C9 as made: the final closing-balance tag takes its
\* type letter, like its other parts, from the last data row.
FinalCloseFromLastRow ==
  pc = "done" => EndsWith(LastItems(Fld(Records[Len(Records)], 18)))

\* C9 -- Terminal handling: a finished run ends, right after the last data
\* row's own lines, with a closing-balance tag of type F built from that
\* row's closing-balance sign, date and amount with its currency, then the
\* available-balance tag if the row's available-balance sign is not empty,
\* then the trailer, with {CHK:...} if a checksum is configured; this
\* whether or not the last row started a page or a message.
FinalCloseTypeF == pc = "done" => EndsWith(LastItems(<<"F">>))

\* A finished run whose last data row has the closing-balance type M and
\* started neither a page nor a message.
FinalCloseTypeFWitness ==
  /\ pc = "done"
  /\ Len(Records) >= 2
  /\ Fld(Records[Len(Records)], 18) = <<"M">>
  /\ \A i \in Written(Len(Records)) : zfile[i].tag \notin {"hdr", "60"}

(***************************************************************************)
(* Normalizing twice.                                                      *)
(***************************************************************************)
\* The statement of C8 as made: normalizing a normalized record changes
\* nothing.
NormalizeIdempotent == Len(xlines) >= 3 => xlines[3] = xlines[2]

\* C8 -- Normalizing a normalized record: a second convert_values leaves
\* the case-normalized fields and the fields outside the three sets as
\* they are; it leaves a normalized amount as it is exactly when that
\* amount holds no decimal comma, and it never leaves a normalized date of
\* 6 digits (4 for field 10) as it is.
NormalizeTwice ==
  \A n \in 2..Len(xlines) - 1 :
    \A i \in 0..26 :
      LET once == Fld(xlines[n], i)
          twice == Fld(xlines[n + 1], i) IN
      /\ i \in {5, 6, 11, 17, 18, 21} => twice = once
      /\ i \notin {5, 6, 11, 17, 18, 21, 8, 12, 20, 23, 7, 9, 10, 19, 22} => twice = once
      /\ i \in {8, 12, 20, 23} =>
           (twice = once <=> \A j \in 1..Len(once) : once[j] # ",")
      /\ (i \in {7, 9, 19, 22} /\ Len(once) = 6) => twice # once
      /\ (i = 10 /\ Len(once) = 4) => twice # once

\* A record whose case fields the first call changed, and whose amounts and
\* dates the second call changed again.
NormalizeTwiceWitness ==
  /\ Len(xlines) = 3
  /\ Fld(xlines[2], 5) # Fld(xlines[1], 5)
  /\ Fld(xlines[3], 8) # Fld(xlines[2], 8)
  /\ Fld(xlines[3], 7) # Fld(xlines[2], 7)
  /\ Fld(xlines[3], 5) = Fld(xlines[2], 5)

(***************************************************************************)
(* Header and blank rows.                                                  *)
(***************************************************************************)
\* The row is a header row (its field before the last is the header label,
\* case and spaces ignored) or a blank row (no field at all, or an empty
\* first field).
HeaderOrBlank(r) ==
  \/ r = <<>>
  \/ r[1] = <<>>
  \/ /\ Len(r) >= 2
     /\ Replace(StrUpper(r[Len(r) - 1]), " ", <<>>)
          = <<"R", "E", "F", "4", "(", "M", "T", "9", "4", "0", "O", "N", "L", "Y", ")">>

\* C11 -- Rows that are not data are skipped without effect: when a header
\* row or a blank row is read, nothing is written, the context, the TRN
\* counter and the last row stay as they are, and the run goes on with the
\* next row.
HeaderOrBlankSkipped ==
  [][(rows' # rows /\ HeaderOrBlank(rows'[Len(rows')])) =>
       /\ pc' = "loop"
       /\ UNCHANGED <<prev_line, trn, lst_line, zfile>>]_vars

(***************************************************************************)
(* The information tag.                                                    *)
(***************************************************************************)
\* The positions of the k-th data row's :86: tags.
InfoTags(k) == {i \in Pos61(k) + 1..End(k) : zfile[i].tag = "86"}

\* The reference-4 field of the row is neither empty nor white space.
HasRefFour(r) == \E i \in 1..Len(Fld(r, 25)) : Fld(r, 25)[i] # " "

\* C12 -- Information tag gating: a data row writes an :86: tag, carrying
\* its reference-4 field, if and only if the message type is 940 and that
\* field is neither empty nor white space; under message type 950 the
\* target file holds no :86: tag.
InfoTagGated ==
  /\ \A k \in 1..Len(Records) :
       IF args.msg_type = <<"9", "4", "0">> /\ HasRefFour(Records[k])
       THEN \E i \in InfoTags(k) :
              /\ InfoTags(k) = {i}
              /\ zfile[i].text = Fld(DataRead[k], 25)
       ELSE InfoTags(k) = {}
  /\ \A i \in Places("86") : \E k \in 1..Len(Records) : i \in InfoTags(k)
  /\ args.msg_type = <<"9", "5", "0">> => Places("86") = {}

\* An MT940 run with a row that wrote its :86: tag and a row whose
\* reference-4 field is one space.
InfoTagGatedWitness ==
  /\ args.msg_type = <<"9", "4", "0">>
  /\ \E k \in 1..Len(Records) : InfoTags(k) # {}
  /\ \E k \in 1..Len(Records) : Fld(Records[k], 25) = <<" ">>

\* An MT950 run that handled a row with a reference-4 field.
InfoTagNever950Witness ==
  /\ args.msg_type = <<"9", "5", "0">>
  /\ \E k \in 1..Len(Records) : HasRefFour(Records[k])

(***************************************************************************)
(* What the normalizer keeps and what it does to dates.                    *)
(***************************************************************************)
\* C13 -- Arity and pass-through: convert_values returns, for a record of
\* 27 fields, a record of 27 fields in which every field outside the case
\* set {5,6,11,17,18,21}, the amount set {8,12,20,23} and the date set
\* {7,9,10,19,22} is the input field at the same position.
NormalizeKeepsOthers ==
  \A n \in 1..Len(xlines) - 1 :
    Len(xlines[n]) = 27 =>
      /\ Len(xlines[n + 1]) = 27
      /\ \A i \in 0..26 \ {5, 6, 11, 17, 18, 21, 8, 12, 20, 23, 7, 9, 10, 19, 22} :
           Fld(xlines[n + 1], i) = Fld(xlines[n], i)

\* A record was normalized whose other fields hold a lower-case letter and
\* a decimal point, and whose case fields were changed.
NormalizeKeepsOthersWitness ==
  /\ Len(xlines) >= 2
  /\ Fld(xlines[1], 13) = <<"a", ".", "b">>
  /\ Fld(xlines[2], 5) # Fld(xlines[1], 5)
  /\ Fld(xlines[2], 8) # Fld(xlines[1], 8)

\* The two-digit days and months and the four-digit years of the dates.
Days == {<<"1", "5">>, <<"1", "0">>, <<"0", "3">>, <<"0", "2">>}

Months == {<<"1", "0">>, <<"0", "3">>, <<"0", "2">>}

Years == {<<"2", "0", "1", "9">>, <<"2", "0", "2", "1">>}

\* The date of day dd, month mm and year yyyy written in the layout with
\* the separator sep.
Written10(layout, dd, mm, yyyy, sep) ==
  IF layout = "DDMMYYYY" THEN dd \o <<sep>> \o mm \o <<sep>> \o yyyy
  ELSE IF layout = "MMDDYYYY" THEN mm \o <<sep>> \o dd \o <<sep>> \o yyyy
  ELSE yyyy \o <<sep>> \o mm \o <<sep>> \o dd

\* C14 -- Date normalization: under each of the three layouts, a date
\* written in that layout with separators is rewritten to the six digits
\* YYMMDD of the same day in the opening-balance, value, closing-balance
\* and available-balance date fields, and to the four digits MMDD in the
\* entry date field (field 10).
DatesNormalized ==
  Len(xlines) >= 2 =>
    \A dd \in Days, mm \in Months, yyyy \in Years, sep \in {"-", "/"} :
      \A i \in {7, 9, 10, 19, 22} :
        Fld(xlines[1], i) = Written10(args.dtf, dd, mm, yyyy, sep) =>
          Fld(xlines[2], i) = IF i = 10 THEN mm \o dd
                              ELSE <<yyyy[3], yyyy[4]>> \o mm \o dd

\* 15 October 2019, written month first, was normalized under the
\* month-first layout.
DatesNormalizedWitness ==
  /\ Len(xlines) >= 2
  /\ args.dtf = "MMDDYYYY"
  /\ Fld(xlines[1], 7) = <<"1", "0", "-", "1", "5", "-", "2", "0", "1", "9">>
  /\ Fld(xlines[2], 7) = <<"1", "9", "1", "0", "1", "5">>
  /\ Fld(xlines[2], 10) = <<"1", "0", "1", "5">>

(***************************************************************************)
(* The order of the items of a row.                                        *)
(***************************************************************************)
\* The tags of the items written while handling the k-th data row, in order.
TagsWritten(k) == [i \in 1..End(k) - End(k - 1) |-> zfile[End(k - 1) + i].tag]

\* The orders in which a row that starts a message and a page may write.
BoundaryOrders ==
  {<<"62">> \o av \o <<"trl", "hdr", "20", "25", "28C", "60", "61">> \o su \o in :
     av \in {<<>>, <<"64">>}, su \in {<<>>, <<"sup">>}, in \in {<<>>, <<"86">>}}

\* C15 -- Fixed order of emission: a data row that is both a message
\* boundary and a page boundary writes, in this order, the closing-balance
\* (and available-balance) tag of the previous page, the trailer of the
\* previous message, the new header, the page-opening group :20:, :25:,
\* :28C:, :60x:, its :61: tag, its supplementary line and its :86: tag.
BoundaryOrder ==
  \A k \in 2..Len(Records) :
    (BicChanges(k) /\ PageChanges(k)) => TagsWritten(k) \in BoundaryOrders

(***************************************************************************)
(* The user header block.                                                  *)
(***************************************************************************)
\* The banking-priority field the configuration asks for: none, or the code
\* padded with zeros to four characters.
PriorityField ==
  IF args.f113 = PyFalse THEN <<>>
  ELSE <<"{", "1", "1", "3", ":">>
       \o [i \in 1..4 - Len(args.f113.val) |-> "0"] \o args.f113.val \o <<"}">>

\* The text t ends with the text e.
TextEndsWith(t, e) == Len(t) >= Len(e) /\ SubSeq(t, Len(t) - Len(e) + 1, Len(t)) = e

\* C16 -- Optional banking-priority field: the user header block of every
\* message header holds the field {113:nnnn}, with the configured code
\* padded to four characters, followed by the user reference field, and
\* holds the user reference field alone when no code is configured.
PriorityFieldWritten ==
  \A i \in Places("hdr") :
    TextEndsWith(zfile[i].text,
                 <<"{", "3", ":">> \o PriorityField \o <<"{", "1", "1", "8", ":">>
                 \o args.mur \o <<"}", "{", "4", ":">>)

(***************************************************************************)
(* The output direction with a generated Message Input Reference.          *)
(***************************************************************************)
\* The call asks for the output direction and a generated reference.
AutoMir == args.drctn # "I" /\ args.mir = PyTrue

\* C17 -- Output direction with a generated Message Input Reference: when
\* the direction is not 'I' and mir is True, every message open succeeds
\* and writes an application header {2:O...}, and the run goes on to its
\* terminal closure: no data row ends the run with an error, and every data
\* row read has its header written.
AutoMirSucceeds ==
  AutoMir =>
    /\ pc # "AttributeError"
    /\ \A k \in 1..Len(rows) :
         (Len(rows[k]) = 27 /\ ~HeaderOrBlank(rows[k])) => Places("hdr") # {}

(***************************************************************************)
(* The running context.                                                    *)
(***************************************************************************)
\* The details of the record r that the running context keeps.
DetailsOf(r) ==
  [account |-> r[3], sendbic |-> r[1], recvbic |-> r[2], stmtno |-> r[4],
   stmtpg |-> r[5], ccy |-> r[25], cbalsgn |-> r[18], cbaltyp |-> r[19],
   cbaldte |-> r[20], cbal |-> r[21], abalsgn |-> r[22], abaldte |-> r[23],
   abal |-> r[24]]

\* C18 -- The running context tracks the last data record: once a data
\* record has been processed, the account id, BIC pair, statement and page
\* number, currency and closing and available balance details of the
\* context are those of that record, boundary or not; and the context is
\* updated after the record's text is written, so a closing-balance tag
\* written for a record still carries the details of the record before it.
ContextTracksLastRecord ==
  /\ Len(Records) > 0 => prev_line = DetailsOf(Records[Len(Records)])
  /\ \A k \in 2..Len(Records) :
       TagsWritten(k)[1] = "62" => zfile[End(k - 1) + 1] = ClosingTagOf(Records[k - 1])

\* A record that triggers no boundary has changed the context.
ContextTracksLastRecordWitness ==
  /\ Len(Records) >= 2
  /\ ~PageChanges(Len(Records))
  /\ ~BicChanges(Len(Records))
  /\ Records[Len(Records)][21] # Records[Len(Records) - 1][21]
  /\ prev_line.cbal = Records[Len(Records)][21]

(***************************************************************************)
(* Pages and messages.                                                     *)
(***************************************************************************)
\* The position of the first item with the given tag after position i; 0 if
\* there is none.
NextPlace(tag, i) ==
  IF \E j \in Places(tag) : j > i
  THEN CHOOSE j \in Places(tag) : j > i /\ \A l \in Places(tag) : l > i => j <= l
  ELSE 0

\* C19 -- Every transaction-detail tag lies inside an open page of its own
\* message: between each message header and the first :61: tag after it
\* there is a page-opening group :20:, :25:, :28C:, :60x:; between a
\* closing-balance tag and the trailer after it every :61: tag has an
\* opening-balance tag before it; and every trailer follows the close of a
\* page, so that no page spans two messages.
PageInsideMessage ==
  /\ \A h \in Places("hdr") :
       NextPlace("61", h) # 0 =>
         /\ NextPlace("61", h) >= h + 5
         /\ <<zfile[h + 1].tag, zfile[h + 2].tag, zfile[h + 3].tag, zfile[h + 4].tag>>
              = <<"20", "25", "28C", "60">>
  /\ \A c \in Places("62") :
       \A p \in Places("61") :
         (c < p /\ p < NextPlace("trl", c)) => \E o \in Places("60") : c < o /\ o < p
  /\ \A t \in Places("trl") : t > 1 /\ zfile[t - 1].tag \in {"62", "64"}

(***************************************************************************)
(* An input without data rows.                                             *)
(***************************************************************************)
\* Every row read so far is a header row or a blank row.
NoDataRows == \A k \in 1..Len(rows) : HeaderOrBlank(rows[k])

\* C20 -- An input with no data rows, empty or made of header and blank
\* rows only, makes the run end normally: no error is raised and nothing is
\* written, no message header, no balance tag and no trailer.
NoDataEndsQuietly == NoDataRows => (pc \in {"loop", "done"} /\ zfile = <<>>)

====
